---- MODULE Spec2Model ----
(***************************************************************************)
(* Pre-Trott constant search (prydt/trott-constant-search).                *)
(*                                                                         *)
(* The notebook defines count_digits, cf_to_real, cf_to_trott_approx,      *)
(* valid_trott and the recursive search trott_backtracking.  Python        *)
(* strings are modelled as sequences of one-character strings.  An mpf     *)
(* value is modelled by the exact rational it approximates: every value    *)
(* here is computed at a working precision of at least three decimal       *)
(* digits more than the precision it is printed at, and its denominator    *)
(* is far below 10^18, so the digits mpmath prints are the digits of the   *)
(* exact rational rounded half-up at the printing precision, in fixed or   *)
(* exponent notation, with the trailing zeros stripped.                    *)
(***************************************************************************)
EXTENDS Integers, Sequences, FiniteSets, TLC

VARIABLES
    \* ---- trott_backtracking: the recursive search ----
    max_items,   \* argument max_items of the search
    max_size,    \* argument max_size of the search
    stack,       \* call stack of trott_backtracking, innermost frame last
    out,         \* the lines printed so far ("VALID: ..."), in order
    tested,      \* the new_cf most recently handed to valid_trott
    \* ---- one notebook kernel evaluating valid_trott / cf_to_real ----
    pc,          \* position of the running call
    fn,          \* the function the cell called
    cf_list,     \* its argument cf_list
    precision,   \* local/argument precision
    dps,         \* mp.dps, the library's ambient working precision
    saved,       \* precisions saved by the open `with mp.extradps` blocks
    curr,        \* local curr of cf_to_real (its return value)
    real,        \* local real of valid_trott
    want,        \* local want of valid_trott
    ret,         \* what the call returned (rendered for cf_to_real)
    exc,         \* the exception in flight or raised, "none" otherwise
    memo         \* the first completed call of the session and its result

vars == << max_items, max_size, stack, out, tested,
           pc, fn, cf_list, precision, dps, saved, curr, real, want, ret, exc,
           memo >>

searchVars == << max_items, max_size, stack, out, tested >>
kernelVars == << pc, fn, cf_list, precision, dps, saved, curr, real, want,
                 ret, exc, memo >>

-----------------------------------------------------------------------------
(* Bounds of the model *)

\* largest max_size a search is started with
MaxSize == 55
\* largest max_items a search is started with
MaxItems == 4
\* longest generated argument of an evaluated call
MaxLen == 3
\* longest argument of a call in a kernel session
MaxSessionLen == 2

\* mpmath's default mp.dps
DefaultDps == 15

-----------------------------------------------------------------------------
(* Python strings and integers *)

DigitChar == << "0", "1", "2", "3", "4", "5", "6", "7", "8", "9" >>

Max2(a, b) == IF a >= b THEN a ELSE b
Min2(a, b) == IF a <= b THEN a ELSE b

\* s[:n]
py_slice(s, n) == SubSeq(s, 1, Min2(Max2(n, 0), Len(s)))

\* str(n) of a Python int
RECURSIVE int_str(_)
int_str(n) ==
    IF n < 0 THEN << "-" >> \o int_str(-n)
    ELSE IF n < 10 THEN << DigitChar[n + 1] >>
    ELSE int_str(n \div 10) \o << DigitChar[(n % 10) + 1] >>

\* "".join(map(str, cf_list))
RECURSIVE join_str(_)
join_str(l) ==
    IF l = << >> THEN << >> ELSE int_str(Head(l)) \o join_str(Tail(l))

-----------------------------------------------------------------------------
(* count_digits *)

\* the inner while loop: num = num // 10; total = total + 1 while num > 0
RECURSIVE count_digits_num_gt9(_)
count_digits_num_gt9(num) ==
    IF num > 9 THEN 1 + count_digits_num_gt9(num \div 10) ELSE 0

RECURSIVE count_digits_num(_)
count_digits_num(num) ==
    IF num > 0 THEN 1 + count_digits_num(num \div 10) ELSE 0

RECURSIVE count_digits(_)
count_digits(l) ==
    IF l = << >> THEN 0
    ELSE count_digits_num(Head(l)) + count_digits(Tail(l))

-----------------------------------------------------------------------------
(* cf_to_real *)

IntZero == [kind |-> "int", num |-> 0, den |-> 1]
ZeroDivision == [kind |-> "ZeroDivisionError", num |-> 0, den |-> 1]

\* curr = 1 / mpf(item + curr); mpmath raises ZeroDivisionError on 1/0
cf_step(item, c) ==
    LET s == item * c.den + c.num
    IN  IF c.kind = "ZeroDivisionError" \/ s = 0 THEN ZeroDivision
        ELSE IF s > 0 THEN [kind |-> "mpf", num |-> c.den, den |-> s]
        ELSE [kind |-> "mpf", num |-> -c.den, den |-> -s]

\* for item in cf_list[::-1]: the items not yet visited are cf_list[1..i]
RECURSIVE cf_fold(_, _, _)
cf_fold(l, i, c) ==
    IF i = 0 THEN c ELSE cf_fold(l, i - 1, cf_step(l[i], c))

\* the same loop without the [::-1]
RECURSIVE cf_fold_forward(_, _, _)
cf_fold_forward(l, i, c) ==
    IF i = 0 THEN c
    ELSE cf_fold_forward(l, i - 1, cf_step(l[Len(l) + 1 - i], c))

cf_loop_forward(l) == cf_fold_forward(l, Len(l), IntZero)

\* curr = 0, then the loop over the reversed list
cf_loop(l) == cf_fold(l, Len(l), IntZero)

-----------------------------------------------------------------------------
(* str of an mpf: mpmath's to_str(value, mp.dps) *)

RECURSIVE nat_digits(_)
nat_digits(n) ==
    IF n < 10 THEN << n >> ELSE nat_digits(n \div 10) \o << n % 10 >>

\* the first k digits after the point of r/d, 0 <= r < d
RECURSIVE frac_digits(_, _, _)
frac_digits(r, d, k) ==
    IF k <= 0 THEN << >>
    ELSE << (10 * r) \div d >> \o frac_digits((10 * r) % d, d, k - 1)

\* the zeros between the point and the first significant digit, 0 < r < d
RECURSIVE leading_zeros(_, _)
leading_zeros(r, d) ==
    IF 10 * r >= d THEN 0 ELSE 1 + leading_zeros(10 * r, d)

\* to_digits_exp: k significant digits of n/d > 0, cut off, and the decimal
\* exponent of the first of them
to_digits_exp(n, d, k) ==
    LET ip == n \div d
        r == n % d
    IN  IF ip > 0
        THEN LET id == nat_digits(ip)
             IN  [digits |-> SubSeq(id \o frac_digits(r, d, k - Len(id)), 1, k),
                  exponent |-> Len(id) - 1]
        ELSE LET z == leading_zeros(r, d)
             IN  [digits |-> SubSeq(frac_digits(r, d, z + k), z + 1, z + k),
                  exponent |-> -(z + 1)]

\* "Rounding up kills some instances of ...99999": half-up at digit n
round_digits(de, n) ==
    LET dg == de.digits
        keep == SubSeq(dg, 1, n)
        low == {i \in 1..n : keep[i] # 9}
    IN  IF dg[n + 1] < 5 THEN [digits |-> keep, exponent |-> de.exponent]
        ELSE IF low = {}
        THEN [digits |-> [i \in 1..n |-> IF i = 1 THEN 1 ELSE 0],
              exponent |-> de.exponent + 1]
        ELSE LET m == CHOOSE i \in low : \A j \in low : j <= i
             IN  [digits |-> [i \in 1..n |->
                                 IF i < m THEN keep[i]
                                 ELSE IF i = m THEN keep[i] + 1 ELSE 0],
                  exponent |-> de.exponent]

digit_chars(dg) == [i \in 1..Len(dg) |-> DigitChar[dg[i] + 1]]

zeros(k) == [i \in 1..k |-> "0"]

\* digits.rstrip('0')
RECURSIVE rstrip_zeros(_)
rstrip_zeros(s) ==
    IF s # << >> /\ s[Len(s)] = "0"
    THEN rstrip_zeros(SubSeq(s, 1, Len(s) - 1)) ELSE s

strip_zeros(s) ==
    LET t == rstrip_zeros(s)
    IN  IF t[Len(t)] = "." THEN t \o << "0" >> ELSE t

\* to_str(s, dps) for a nonzero value n/d, d > 0
mpf_str(n, d, n_dps) ==
    LET sign == IF n < 0 THEN << "-" >> ELSE << >>
        a == IF n < 0 THEN -n ELSE n
        rd == round_digits(to_digits_exp(a, d, n_dps + 3), n_dps)
        e == rd.exponent
        min_fixed == Min2(-(n_dps \div 3), -5)
        max_fixed == n_dps
        fixed == min_fixed < e /\ e < max_fixed
        dg == IF fixed /\ e < 0
              THEN zeros(-e) \o digit_chars(rd.digits)
              ELSE digit_chars(rd.digits)
        split == IF fixed /\ e >= 0 THEN e + 1 ELSE 1
        body == strip_zeros(SubSeq(dg, 1, split) \o << "." >>
                            \o SubSeq(dg, split + 1, Len(dg)))
    IN  IF fixed THEN sign \o body
        ELSE IF e >= 0 THEN sign \o body \o << "e", "+" >> \o int_str(e)
        ELSE sign \o body \o << "e" >> \o int_str(e)

\* str(value) at ambient precision n_dps: an int prints as an int
py_str(c, n_dps) ==
    IF c.kind = "int" THEN int_str(c.num) ELSE mpf_str(c.num, c.den, n_dps)

-----------------------------------------------------------------------------
(* cf_to_trott_approx and valid_trott *)

cf_to_trott_approx(l) == << "0", "." >> \o join_str(l)

\* precision = count_digits(cf_list) + 2
vt_precision(l) == count_digits(l) + 2

\* mp.extradps(n): the precision inside the block
extradps(cur, n) == cur + n

\* valid_trott called with ambient precision amb; raised tells that the
\* ZeroDivisionError of cf_to_real came out of it
valid_trott_at(l, amb) ==
    LET p == vt_precision(l)
        inner == extradps(amb, p + 1)
        c == cf_loop(l)
    IN  IF c.kind = "ZeroDivisionError"
        THEN [raised |-> TRUE, ret |-> FALSE]
        ELSE [raised |-> FALSE,
              ret |-> py_slice(py_str(c, inner), p) = cf_to_trott_approx(l)]

valid_trott(l) == valid_trott_at(l, DefaultDps)

-----------------------------------------------------------------------------
(* A notebook kernel running one call of valid_trott or cf_to_real *)

\* leaving a `with mp.extradps` block without putting the precision back
keep_dps(cur, sv) == cur

\* leaving a `with mp.extradps` block: the precision saved on entry is
\* put back, on a normal exit and on an exception alike
restore_dps(cur, sv) == sv[Len(sv)]

Pop(sv) == SubSeq(sv, 1, Len(sv) - 1)

SeqsUpTo(S, n) == UNION {[1..k -> S] : k \in 0..n}

\* the arguments of the notebook's test cells
ScenarioInputs ==
    { <<3, 29, 5, 7>>, <<3, 29, 5, 8>>, <<3>>, <<3, 30>>, <<3, 29>>,
      <<3, 333329>>, <<3, 3333329>>, <<3, 33333329>>, <<100, 5, 7, 99>> }

EvalTerms == {-3, 0, 1, 2, 3, 5, 10, 29}
EvalInputs == ScenarioInputs \cup SeqsUpTo(EvalTerms, MaxLen)

SessionTerms == {0, 3}
SessionInputs == SeqsUpTo(SessionTerms, MaxSessionLen)

NoLocals ==
    /\ curr = IntZero
    /\ real = << >>
    /\ want = << >>
    /\ ret = "none"
    /\ exc = "none"

\* a new call starts with fresh locals
FreshLocals ==
    /\ curr' = IntZero
    /\ real' = << >>
    /\ want' = << >>
    /\ ret' = "none"
    /\ exc' = "none"

\* a cell calls valid_trott(cf_list)
CallValidTrott ==
    /\ pc = "idle"
    /\ \E l \in SessionInputs : cf_list' = l
    /\ fn' = "valid_trott"
    /\ precision' = 0
    /\ pc' = "vt_begin"
    /\ FreshLocals
    /\ UNCHANGED << dps, saved, memo >>
    /\ UNCHANGED searchVars

\* a cell calls cf_to_real(cf_list, count_digits(cf_list) + k)
CallCfToReal ==
    /\ pc = "idle"
    /\ \E l \in SessionInputs, k \in 1..2 :
          /\ cf_list' = l
          /\ precision' = count_digits(l) + k
    /\ fn' = "cf_to_real"
    /\ pc' = "cf_with"
    /\ FreshLocals
    /\ UNCHANGED << dps, saved, memo >>
    /\ UNCHANGED searchVars

\* precision = count_digits(cf_list) + 2
VtPrecision ==
    /\ pc = "vt_begin"
    /\ precision' = vt_precision(cf_list)
    /\ pc' = "vt_with"
    /\ UNCHANGED << fn, cf_list, dps, saved, curr, real, want, ret, exc, memo >>
    /\ UNCHANGED searchVars

\* with mp.extradps(precision+1): ... cf_to_real(cf_list, precision)
VtEnter ==
    /\ pc = "vt_with"
    /\ saved' = Append(saved, dps)
    /\ dps' = extradps(dps, precision + 1)
    /\ pc' = "cf_with"
    /\ UNCHANGED << fn, cf_list, precision, curr, real, want, ret, exc, memo >>
    /\ UNCHANGED searchVars

\* cf_to_real: with mp.extradps(precision+1):
CfEnter ==
    /\ pc = "cf_with"
    /\ saved' = Append(saved, dps)
    /\ dps' = extradps(dps, precision + 1)
    /\ pc' = "cf_loop"
    /\ UNCHANGED << fn, cf_list, precision, curr, real, want, ret, exc, memo >>
    /\ UNCHANGED searchVars

\* cf_to_real: curr = 0 and the loop over cf_list[::-1]
CfLoop ==
    /\ pc = "cf_loop"
    /\ curr' = cf_loop(cf_list)
    /\ exc' = IF curr'.kind = "ZeroDivisionError"
              THEN "ZeroDivisionError" ELSE "none"
    /\ pc' = "cf_exit"
    /\ UNCHANGED << fn, cf_list, precision, dps, saved, real, want, ret, memo >>
    /\ UNCHANGED searchVars

\* cf_to_real: return curr (or the exception) out of the with block; a
\* cell that called cf_to_real itself displays the value at the ambient
\* precision
CfExit ==
    /\ pc = "cf_exit"
    /\ dps' = restore_dps(dps, saved)
    /\ saved' = Pop(saved)
    /\ IF fn = "cf_to_real"
       THEN /\ pc' = "done"
            /\ ret' = IF exc = "none" THEN py_str(curr, dps') ELSE "none"
       ELSE /\ pc' = IF exc = "none" THEN "vt_str" ELSE "vt_exit"
            /\ ret' = ret
    /\ UNCHANGED << fn, cf_list, precision, curr, real, want, exc, memo >>
    /\ UNCHANGED searchVars

\* real = str(cf_to_real(cf_list, precision))[:precision]
VtStr ==
    /\ pc = "vt_str"
    /\ real' = py_slice(py_str(curr, dps), precision)
    /\ pc' = "vt_want"
    /\ UNCHANGED << fn, cf_list, precision, dps, saved, curr, want, ret, exc,
                    memo >>
    /\ UNCHANGED searchVars

\* want = cf_to_trott_approx(cf_list)
VtWant ==
    /\ pc = "vt_want"
    /\ want' = cf_to_trott_approx(cf_list)
    /\ pc' = "vt_exit"
    /\ UNCHANGED << fn, cf_list, precision, dps, saved, curr, real, ret, exc,
                    memo >>
    /\ UNCHANGED searchVars

\* return real == want (or the exception) out of the with block
VtExit ==
    /\ pc = "vt_exit"
    /\ dps' = restore_dps(dps, saved)
    /\ saved' = Pop(saved)
    /\ ret' = IF exc = "none" THEN (real = want) ELSE "none"
    /\ pc' = "done"
    /\ UNCHANGED << fn, cf_list, precision, curr, real, want, exc, memo >>
    /\ UNCHANGED searchVars

ThisCall == [fn |-> fn, cf_list |-> cf_list, precision |-> precision]

\* the cell ends; the session remembers its first call, and whether a
\* different call has completed since
Return ==
    /\ pc = "done"
    /\ pc' = "idle"
    /\ memo' = IF memo = << >>
               THEN << [call |-> ThisCall, ret |-> ret, exc |-> exc,
                        between |-> FALSE] >>
               ELSE IF memo[1].call # ThisCall
               THEN << [memo[1] EXCEPT !.between = TRUE] >>
               ELSE memo
    /\ UNCHANGED << fn, cf_list, precision, dps, saved, curr, real, want, ret,
                    exc >>
    /\ UNCHANGED searchVars

SearchIdle ==
    /\ max_items = 0
    /\ max_size = 0
    /\ stack = << >>
    /\ out = << >>
    /\ tested = << >>

\* one cell: valid_trott(l), or cf_to_real(l, count_digits(l) + 1)
EvalInit ==
    /\ SearchIdle
    /\ cf_list \in EvalInputs
    /\ \/ fn = "valid_trott" /\ precision = 0 /\ pc = "vt_begin"
       \/ fn = "cf_to_real" /\ precision = count_digits(cf_list) + 1
          /\ pc = "cf_with"
    /\ dps = DefaultDps
    /\ saved = << >>
    /\ NoLocals
    /\ memo = << >>

EvalNext ==
    \/ VtPrecision
    \/ VtEnter
    \/ CfEnter
    \/ CfLoop
    \/ CfExit
    \/ VtStr
    \/ VtWant
    \/ VtExit

EvalSpec == EvalInit /\ [][EvalNext]_vars

\* a session of cells, one after the other
SessionInit ==
    /\ SearchIdle
    /\ pc = "idle"
    /\ fn = "none"
    /\ cf_list = << >>
    /\ precision = 0
    /\ dps = DefaultDps
    /\ saved = << >>
    /\ NoLocals
    /\ memo = << >>

SessionNext ==
    \/ CallValidTrott
    \/ CallCfToReal
    \/ EvalNext
    \/ Return

SessionSpec == SessionInit /\ [][SessionNext]_vars

-----------------------------------------------------------------------------
(* trott_backtracking *)

\* one invocation: its arguments current_cf and count, the loop variable
\* a of the first loop, the list valid, and the index v of the second loop
Frame(cf, c) ==
    [current_cf |-> cf, count |-> c, a |-> 1, valid |-> << >>, v |-> 1]

Top == stack[Len(stack)]

SetTop(f) == [stack EXCEPT ![Len(stack)] = f]

\* if count <= max_items:
bt_guard_le(count, mx) == count <= mx

\* if count < max_items:
bt_guard(count, mx) == count < mx

\* for a in range(1, max_size + 1):
bt_in_range_incl(a, mx) == a <= mx

\* for a in range(1, max_size):
bt_in_range(a, mx) == a < mx

\* valid.append(new_cf) without the test
bt_admit_all(new_cf, amb) == [raised |-> FALSE, ret |-> TRUE]

\* if valid_trott(new_cf):
bt_admit(new_cf, amb) == valid_trott_at(new_cf, amb)

\* valid.insert(0, new_cf)
bt_prepend_valid(valid, new_cf) == << new_cf >> \o valid

\* valid.append(new_cf)
bt_append_valid(valid, new_cf) == Append(valid, new_cf)

\* count >= max_items: the invocation does nothing and returns
BtSkip ==
    /\ stack # << >>
    /\ ~bt_guard(Top.count, max_items)
    /\ stack' = Pop(stack)
    /\ UNCHANGED << max_items, max_size, out, tested >>
    /\ UNCHANGED kernelVars

\* one iteration of the first loop: new_cf = current_cf + [a], tested and
\* kept when valid; an exception of valid_trott leaves every invocation
BtTest ==
    /\ stack # << >>
    /\ bt_guard(Top.count, max_items)
    /\ bt_in_range(Top.a, max_size)
    /\ LET new_cf == Top.current_cf \o << Top.a >>
           r == bt_admit(new_cf, dps)
       IN  /\ tested' = new_cf
           /\ IF r.raised
              THEN /\ stack' = << >>
                   /\ exc' = "ZeroDivisionError"
              ELSE /\ stack' = SetTop([Top EXCEPT
                          !.a = @ + 1,
                          !.valid = IF r.ret THEN bt_append_valid(@, new_cf)
                                    ELSE @])
                   /\ exc' = exc
    /\ UNCHANGED << max_items, max_size, out >>
    /\ UNCHANGED << pc, fn, cf_list, precision, dps, saved, curr, real, want,
                    ret, memo >>

\* one iteration of the second loop that prints only the sequences of
\* full length
BtReportFullOnly ==
    /\ stack # << >>
    /\ bt_guard(Top.count, max_items)
    /\ ~bt_in_range(Top.a, max_size)
    /\ Top.v <= Len(Top.valid)
    /\ out' = IF Top.count + 1 = max_items
              THEN Append(out, Top.valid[Top.v]) ELSE out
    /\ stack' = Append(SetTop([Top EXCEPT !.v = @ + 1]),
                       Frame(Top.valid[Top.v], Top.count + 1))
    /\ UNCHANGED << max_items, max_size, tested >>
    /\ UNCHANGED kernelVars

\* one iteration of the second loop: print v, then call
\* trott_backtracking(v, count+1, max_items, max_size)
BtReport ==
    /\ stack # << >>
    /\ bt_guard(Top.count, max_items)
    /\ ~bt_in_range(Top.a, max_size)
    /\ Top.v <= Len(Top.valid)
    /\ out' = Append(out, Top.valid[Top.v])
    /\ stack' = Append(SetTop([Top EXCEPT !.v = @ + 1]),
                       Frame(Top.valid[Top.v], Top.count + 1))
    /\ UNCHANGED << max_items, max_size, tested >>
    /\ UNCHANGED kernelVars

\* both loops are over: the invocation returns
BtReturn ==
    /\ stack # << >>
    /\ bt_guard(Top.count, max_items)
    /\ ~bt_in_range(Top.a, max_size)
    /\ Top.v > Len(Top.valid)
    /\ stack' = Pop(stack)
    /\ UNCHANGED << max_items, max_size, out, tested >>
    /\ UNCHANGED kernelVars

\* a cell runs trott_backtracking([], 0, max_items, max_size)
Init ==
    /\ max_items \in 0..MaxItems
    /\ max_size \in 0..MaxSize
    /\ stack = << Frame(<< >>, 0) >>
    /\ out = << >>
    /\ tested = << >>
    /\ pc = "search"
    /\ fn = "trott_backtracking"
    /\ cf_list = << >>
    /\ precision = 0
    /\ dps = DefaultDps
    /\ saved = << >>
    /\ NoLocals
    /\ memo = << >>

Next ==
    \/ BtSkip
    \/ BtTest
    \/ BtReport
    \/ BtReturn

Spec == Init /\ [][Next]_vars

-----------------------------------------------------------------------------
(* Properties of the search *)

Range(s) == {s[i] : i \in 1..Len(s)}

Prefix(s, k) == SubSeq(s, 1, k)

SearchDone == stack = << >>

\* C1: every sequence the search has printed as VALID passes valid_trott
\* when it is checked on its own, at the kernel's default precision.
C1_ReportedPassValidTrott ==
    \A i \in 1..Len(out) : valid_trott(out[i]).ret

\* the search has printed [3, 29, 5, 7] after descending four levels
C1_Witness ==
    /\ SearchDone
    /\ max_items = 4
    /\ \E i \in 1..Len(out) : out[i] = <<3, 29, 5, 7>>

\* C2 as stated: every proper prefix of a printed sequence, the empty
\* sequence included, has been printed by the same search.
C2_EveryProperPrefixReported ==
    \A i \in 1..Len(out) :
        \A k \in 0..(Len(out[i]) - 1) : Prefix(out[i], k) \in Range(out)

\* C2 amended: every non-empty proper prefix of a printed sequence was
\* printed before it, and every non-empty proper prefix of a sequence the
\* search has tested (an extension of a node) was printed and passes
\* valid_trott; only the empty root is extended without being printed.
C2_NonEmptyPrefixesReported ==
    /\ \A i \in 1..Len(out) :
          \A k \in 1..(Len(out[i]) - 1) :
              \E j \in 1..(i - 1) : out[j] = Prefix(out[i], k)
    /\ \A k \in 1..(Len(tested) - 1) :
          /\ Prefix(tested, k) \in Range(out)
          /\ valid_trott(Prefix(tested, k)).ret

\* a printed sequence of length three, and a tested extension of it
C2_Witness ==
    /\ \E i \in 1..Len(out) : out[i] = <<3, 29, 5>>
    /\ Len(tested) = 4
    /\ Prefix(tested, 3) = <<3, 29, 5>>

\* the sequences of length k over 1..max_size-1 all of whose non-empty
\* prefixes pass valid_trott, built level by level
RECURSIVE Level(_)
Level(k) ==
    IF k = 0 THEN {<< >>}
    ELSE {s \in {Append(p, a) : p \in Level(k - 1), a \in 1..(max_size - 1)} :
             valid_trott(s).ret}

Expected == UNION {Level(k) : k \in 1..max_items}

InExpected(s) ==
    /\ Len(s) \in 1..max_items
    /\ \A i \in 1..Len(s) : s[i] \in 1..(max_size - 1)
    /\ \A k \in 1..Len(s) : valid_trott(Prefix(s, k)).ret

\* C3: nothing is printed twice, everything printed is a sequence of
\* length 1..max_items over 1..max_size-1 whose non-empty prefixes all
\* pass valid_trott, and when the search has returned every such
\* sequence has been printed.
C3_CompleteAndDuplicateFree ==
    /\ \A i, j \in 1..Len(out) : i # j => out[i] # out[j]
    /\ \A i \in 1..Len(out) : InExpected(out[i])
    /\ SearchDone => Expected \subseteq Range(out)

\* a finished search that printed the six valid sequences below 55
C3_Witness ==
    /\ SearchDone
    /\ max_items = 4
    /\ max_size = 55
    /\ Len(out) = 6

\* s comes before t in the pre-order of the tree of sequences with the
\* children of a node in ascending order of their last term
PreOrderBefore(s, t) ==
    \/ Len(s) < Len(t) /\ Prefix(t, Len(s)) = s
    \/ \E k \in 1..Min2(Len(s), Len(t)) :
          /\ Prefix(s, k - 1) = Prefix(t, k - 1)
          /\ s[k] < t[k]

\* C4: the printed lines are in pre-order: a sequence comes before its
\* extensions, and the whole printed subtree of S + [a] before S + [b]
\* when a < b.
C4_ReportsInPreOrder ==
    \A i, j \in 1..Len(out) : i < j => PreOrderBefore(out[i], out[j])

\* [3, 29, 5], its child [3, 29, 5, 7], then its sibling [3, 29, 54]
C4_Witness ==
    \E i \in 1..Len(out) :
        /\ i + 2 <= Len(out)
        /\ out[i] = <<3, 29, 5>>
        /\ out[i + 1] = <<3, 29, 5, 7>>
        /\ out[i + 2] = <<3, 29, 54>>

DepthInv ==
    /\ Len(stack) <= max_items + 1
    /\ \A i \in 1..Len(stack) :
          /\ stack[i].count = Len(stack[i].current_cf)
          /\ stack[i].count = i - 1
          /\ stack[i].count >= max_items =>
                stack[i].a = 1 /\ stack[i].valid = << >>
    /\ Len(tested) <= max_items
    /\ \A i \in 1..Len(out) : Len(out[i]) <= max_items

\* what is left to do in one invocation: two units for each term still to
\* test, one for each kept sequence still to print, one for the return
Work(f) ==
    IF f.count >= max_items THEN 1
    ELSE 2 * Max2(max_size - f.a, 0) + (Len(f.valid) - f.v + 1) + 1

\* the work left in the invocations of the call stack, outermost first
Measure == [i \in 1..Len(stack) |-> Work(stack[i])]

At(m, i) == IF i <= Len(m) THEN m[i] ELSE 0

\* lexicographic order on vectors of naturals, absent entries being 0
LexLess(m, n) ==
    \E k \in 1..Max2(Len(m), Len(n)) :
        /\ At(m, k) < At(n, k)
        /\ \A j \in 1..(k - 1) : At(m, j) = At(n, j)

\* C10: the search terminates within depth max_items.  Every step of the
\* search strictly decreases Measure, a vector of at most max_items + 1
\* naturals in lexicographic order, so no run takes infinitely many
\* steps (and a running invocation always has a next step: its guards
\* cover every case).  All along, every invocation has count equal to the
\* length of its sequence, an invocation with count >= max_items tests no
\* child, and nothing longer than max_items is tested or printed.
C10_TerminatesWithinDepth ==
    /\ [][LexLess(Measure', Measure)]_vars
    /\ []DepthInv

\* an invocation at depth max_items, entered for a printed sequence
C10_Witness ==
    /\ stack # << >>
    /\ max_items = 3
    /\ Top.count = max_items
    /\ Top.current_cf = <<3, 29, 54>>

-----------------------------------------------------------------------------
(* Properties of valid_trott, count_digits and cf_to_real *)

AllPositive(l) == \A i \in 1..Len(l) : l[i] > 0

RECURSIVE SumStrLen(_)
SumStrLen(l) ==
    IF l = << >> THEN 0 ELSE Len(int_str(Head(l))) + SumStrLen(Tail(l))

ValidTrottReturned == pc = "done" /\ fn = "valid_trott"

\* the first k digits after the point of the exact value n/d, if the value
\* is below 1
FirstFractionalDigits(c, k) == digit_chars(frac_digits(c.num, c.den, k))

\* C5: for a sequence of positive integers with d digits in all,
\* valid_trott returns true exactly when the value of the continued
\* fraction is 0.xxx with its first d fractional digits equal to the
\* concatenated digits of the terms.
C5_TrueIffFirstDigitsMatch ==
    (ValidTrottReturned /\ AllPositive(cf_list) /\ cf_list # << >>) =>
        (ret = (/\ curr.num < curr.den
                /\ FirstFractionalDigits(curr, count_digits(cf_list))
                       = join_str(cf_list)))

\* C6: count_digits of a sequence of positive integers is the sum of the
\* lengths of str(term) over its terms, and 0 for the empty sequence
\* (precision holds count_digits(cf_list) + 2 once valid_trott has
\* computed it).
C6_CountDigitsIsSumOfStrLengths ==
    (fn = "valid_trott" /\ pc # "vt_begin" /\ AllPositive(cf_list)) =>
        precision - 2 = SumStrLen(cf_list)

\* count_digits([100, 5, 7, 99]) was computed and is 7
C6_Witness ==
    /\ fn = "valid_trott"
    /\ pc = "vt_with"
    /\ cf_list = <<100, 5, 7, 99>>
    /\ precision = 7 + 2

\* C7: valid_trott of a sequence with a term that is zero or negative
\* ends with a MalformedTerm error.
C7_MalformedTermRaises ==
    (ValidTrottReturned /\ ~AllPositive(cf_list)) => exc = "MalformedTerm"

CurrComputed == pc \in {"cf_exit", "vt_str", "vt_want", "vt_exit", "done"}

\* C8: cf_to_real([], P) is 0, and cf_to_real([a] + S, P) is
\* 1/(a + cf_to_real(S, P)) for positive terms: with cf_to_real(S, P) the
\* fraction n/d in lowest terms, the result is the fraction d/(a*d + n).
C8_CfToRealRecurrence ==
    (CurrComputed /\ AllPositive(cf_list)) =>
        IF cf_list = << >> THEN curr.num = 0
        ELSE LET t == cf_loop(Tail(cf_list))
             IN  /\ curr.kind = "mpf"
                 /\ curr.num = t.den
                 /\ curr.den = Head(cf_list) * t.den + t.num

\* cf_to_real([3, 29, 5, 7], 6) returned 1051/3189
C8_Witness ==
    /\ pc = "done"
    /\ fn = "cf_to_real"
    /\ cf_list = <<3, 29, 5, 7>>
    /\ curr = [kind |-> "mpf", num |-> 1051, den |-> 3189]

\* C9: a call leaves mp.dps as it found it, also when it raises, and a
\* call repeated later in the session, whatever ran in between, returns
\* what it returned the first time.
C9_SamePrecisionSameResult ==
    /\ pc \in {"idle", "done"} => dps = DefaultDps /\ saved = << >>
    /\ (pc = "done" /\ memo # << >> /\ memo[1].call = ThisCall) =>
           memo[1].ret = ret /\ memo[1].exc = exc

\* cf_to_real([3, 3], 3) is displayed a second time, after another call
C9_Witness ==
    /\ pc = "done"
    /\ memo # << >>
    /\ memo[1].call = ThisCall
    /\ memo[1].between
    /\ fn = "cf_to_real"
    /\ cf_list = <<3, 3>>
    /\ ret = << "0", ".", "3" >>

====
